---- MODULE Spec2Model ----
(***************************************************************************)
(* Model of bdgd_tools/model/Transformer.py: the Transformer entity, its   *)
(* kVs decision function and OpenDSS formatter, the mapping-rule           *)
(* interpreter (_process_* and _create_transformer_from_row) and the batch *)
(* driver create_transformer_from_json.                                    *)
(*                                                                         *)
(* Python values are records of one shape, [ty, n, irr, s]:                *)
(*   int       n is the integer                                            *)
(*   float     n is the value in units of 1/10000; irr says the value has  *)
(*             been divided by 3 ** 0.5 (kept symbolic)                    *)
(*   str       s is the text, a sequence of atoms (TLA+ strings): the      *)
(*             literal pieces of an f-string and the formatted values; a   *)
(*             newline, and a blank that separates two entries of a list   *)
(*             (buses, conns, kvs, kvas, taps), is an atom of its own      *)
(*   NoneType, module, property, method, converted: s names the object     *)
(* A call's outcome is a record [exc, val]: exc = "none" and the returned  *)
(* value, or the name of the exception raised.                             *)
(***************************************************************************)
EXTENDS Integers, Sequences, FiniteSets, TLC

VARIABLES
    obj,          \* the instance dictionary of the Transformer being serialized
    populated,    \* that entity as the interpreter populated it (never changes)
    ret,          \* the outcome of the last method call on obj
    config,       \* json_data['elements']['Transformer']['UNTRMT'], items in document order
    rows,         \* the dataframe's rows, in order
    idx,          \* rows consumed so far by the loop of create_transformer_from_json
    transformers, \* the local list `transformers`
    pc,           \* position of create_transformer_from_json
    raised,       \* the exception that left create_transformer_from_json, if any
    returned      \* the value create_transformer_from_json returned, if any

fmtVars == <<obj, populated, ret>>
drvVars == <<config, rows, idx, transformers, pc, raised, returned>>
vars == <<obj, populated, ret, config, rows, idx, transformers, pc, raised, returned>>

\* ------------------------------------------------------------------ bounds

MaxWindings == 3
MaxRows == 2
MaxNum == 40

\* ----------------------------------------------------------- Python values

PyInt(n) == [ty |-> "int", n |-> n, irr |-> FALSE, s |-> <<>>]
PyFloat(n) == [ty |-> "float", n |-> n, irr |-> FALSE, s |-> <<>>]
PyStr(s) == [ty |-> "str", n |-> 0, irr |-> FALSE, s |-> s]
Str(a) == PyStr(<<a>>)
PyNone == [ty |-> "NoneType", n |-> 0, irr |-> FALSE, s |-> <<>>]
PyObject(ty, name) == [ty |-> ty, n |-> 0, irr |-> FALSE, s |-> <<name>>]
StrSet(names) == {Str(a) : a \in names}

Ok(v) == [exc |-> "none", val |-> v]
Raise(e) == [exc |-> e, val |-> PyNone]

\* k in decimal, zero-padded on the left to `width` digits (width 2, 3 or 4).
Pad(k, width) ==
    LET zeros == IF k < 10 THEN width - 1
                 ELSE IF k < 100 THEN width - 2
                 ELSE IF k < 1000 THEN width - 3
                 ELSE 0
    IN  (CASE zeros = 3 -> "000" [] zeros = 2 -> "00" [] zeros = 1 -> "0" [] OTHER -> "")
            \o ToString(k)

\* repr of a non-negative float held in units of 1/10000: the shortest decimal
\* text, with at least one fractional digit.
FloatRepr(v) ==
    LET ip == v.n \div 10000
        fp == v.n % 10000
        frac == IF fp = 0 THEN "0"
                ELSE IF fp % 1000 = 0 THEN ToString(fp \div 1000)
                ELSE IF fp % 100 = 0 THEN Pad(fp \div 100, 2)
                ELSE IF fp % 10 = 0 THEN Pad(fp \div 10, 3)
                ELSE Pad(fp, 4)
        dec == ToString(ip) \o "." \o frac
    IN  IF v.irr THEN dec \o "/sqrt(3)" ELSE dec

\* str(x) and f"{x}".
Format(v) ==
    CASE v.ty = "int" -> <<ToString(v.n)>>
      [] v.ty = "float" -> <<FloatRepr(v)>>
      [] v.ty = "str" -> v.s
      [] v.ty = "NoneType" -> <<"None">>
      [] OTHER -> <<"<" \o v.ty \o ">">>

\* f"{x:.3f}": three fractional digits, rounded; a str or None has no 'f' format.
Format3f(v) ==
    IF v.ty \notin {"int", "float"} \/ v.irr THEN Raise("TypeError")
    ELSE LET m == IF v.ty = "int" THEN v.n * 1000 ELSE (v.n + 5) \div 10
         IN  Ok(PyStr(<<ToString(m \div 1000) \o "." \o Pad(m % 1000, 3)>>))

\* x / y for the two divisors the class uses: 2 and 3 ** 0.5.
TrueDiv(v, by) ==
    IF v.ty \notin {"int", "float"} THEN Raise("TypeError")
    ELSE LET units == IF v.ty = "int" THEN v.n * 10000 ELSE v.n
         IN  IF by = "sqrt3"
             THEN Ok([ty |-> "float", n |-> units, irr |-> TRUE, s |-> <<>>])
             ELSE Ok([ty |-> "float", n |-> units \div 2, irr |-> v.irr, s |-> <<>>])

\* x + y.
Add(a, b) ==
    IF a.ty = "str" /\ b.ty = "str" THEN Ok(PyStr(a.s \o b.s))
    ELSE Raise("TypeError")

\* ------------------------------------------------------- the entity's fields

DeclaredFields ==
    {"_feeder", "_bus1", "_bus2", "_bus3", "_suffix_bus1", "_suffix_bus2",
     "_suffix_bus3", "_transformer", "_ten_lin_se", "_lig_fas_p", "_lig_fas_s",
     "_lig_fas_t", "_v_pri", "_v_sec", "_tap", "_MRT", "_tip_trafo", "_phases",
     "_bus1_nodes", "_bus2_nodes", "_bus3_nodes", "_windings", "_conn_p",
     "_conn_s", "_conn_t", "_kvas", "_loadloss", "_noloadloss", "_kvs"}

\* Transformer(): the dataclass defaults. The v_pri and v_sec defaults are
\* replaced in the class body by the properties of the same name, so the
\* generated __init__ stores the property objects.
Transformer ==
    [a \in DeclaredFields |->
        CASE a \in {"_v_pri", "_v_sec"} -> PyObject("property", a)
          [] a \in {"_MRT", "_phases", "_kvas"} -> PyInt(0)
          [] a \in {"_tap", "_loadloss", "_noloadloss"} -> PyFloat(0)
          [] OTHER -> PyStr(<<>>)]

\* setattr(o, name, value) on the instance dictionary.
SetAttr(o, name, value) ==
    [a \in DOMAIN o \cup {name} |-> IF a = name THEN value ELSE o[a]]

\* ------------------------------------------------------------ kVs decision

PhaseToNeutralFamily == {"A", "B", "C", "AN", "BN", "CN", "ABN", "BCN", "CAN", "ABCN"}
PhaseToPhaseFamily == {"AB", "BC", "CA", "ABC"}

voltage_enroll(cod_phase, voltage_kv) ==
    IF cod_phase \in StrSet(PhaseToNeutralFamily) THEN TrueDiv(voltage_kv, "sqrt3")
    ELSE IF cod_phase \in StrSet(PhaseToPhaseFamily) THEN Ok(PyStr(Format(voltage_kv)))
    ELSE Ok(PyNone)

voltage_enroll_sec(cod_phase, voltage_kv) ==
    IF cod_phase \in StrSet({"A", "B", "C", "AN", "BN", "CN"}) THEN Ok(voltage_kv)
    ELSE IF cod_phase \in StrSet({"ABN", "BCN", "CAN", "ABCN"}) THEN TrueDiv(voltage_kv, "sqrt3")
    ELSE IF cod_phase \in StrSet({"AB", "BC", "CA", "ABC"}) THEN Ok(PyStr(Format(voltage_kv)))
    ELSE Ok(PyNone)

Blank == <<" ">>

\* Transformer.kvs, the method body.
kvs(self) ==
    LET tip == self["_tip_trafo"]
        p == self["_lig_fas_p"]
        s == self["_lig_fas_s"]
        t == self["_lig_fas_t"]
        v_pri == self["_v_pri"]
        v_sec == self["_v_sec"]
    IN  IF tip = Str("MT") THEN
            Ok(PyStr(Format(v_pri) \o Blank \o Format(v_sec)))
        ELSE IF t \in StrSet({"BN", "CN", "AN"}) \/ s = Str("ABN") THEN
            LET e == voltage_enroll(p, v_pri)
                h == TrueDiv(v_sec, "2")
            IN  IF e.exc # "none" THEN e
                ELSE IF h.exc # "none" THEN h
                ELSE Ok(PyStr(Format(e.val) \o Blank \o Format(h.val) \o Blank \o Format(h.val)))
        ELSE IF t = Str("XX") /\ s \in StrSet({"AN", "BN", "CN", "AB", "BC", "CA", "AC", "ABC"}) THEN
            LET e == voltage_enroll(p, v_pri)
                f == voltage_enroll_sec(s, v_sec)
            IN  IF e.exc # "none" THEN e
                ELSE IF f.exc # "none" THEN f
                ELSE Ok(PyStr(Format(e.val) \o Blank \o Format(f.val)))
        ELSE IF t = Str("0") /\ s = Str("ABCN") THEN
            LET e == voltage_enroll(p, v_pri)
            IN  IF e.exc # "none" THEN e
                ELSE Add(e.val, PyStr(Format(v_sec)))
        ELSE Ok(PyStr(<<>>))

\* self.kvs(): the instance dictionary is searched before the class, so an
\* instance attribute named kvs shadows the method.
call_kvs(self) ==
    IF "kvs" \in DOMAIN self /\ self["kvs"].ty # "method" THEN Raise("TypeError")
    ELSE kvs(self)

\* ---------------------------------------------------------------- formatter

Newline == <<"\n">>
Quote == <<"\"">>

RECURSIVE JoinRepeated(_, _)
\* ' '.join([f'{x}' for _ in range(n)]), given the atoms of f'{x}'.
JoinRepeated(atoms, n) ==
    IF n <= 0 THEN <<>>
    ELSE IF n = 1 THEN atoms
    ELSE atoms \o Blank \o JoinRepeated(atoms, n - 1)

\* Replicated with range(windings - 1): one repetition short.
Replicated_OneShort(value, windings) ==
    IF windings.ty # "int" THEN Raise("TypeError")
    ELSE Ok(PyStr(JoinRepeated(Format(value), windings.n - 1)))

\* The kvas and taps strings of adapting_string_variables.
Replicated(value, windings) ==
    IF windings.ty # "int" THEN Raise("TypeError")
    ELSE Ok(PyStr(JoinRepeated(Format(value), windings.n)))

\* "<bus>.<nodes>" with its quotes.
BusEntry(bus, nodes) == Quote \o Format(bus) \o <<".">> \o Format(nodes) \o Quote

\* MRTEntry without the rewrite: the real bus1.
MRTEntry_RealBus(self) == BusEntry(self["_bus1"], self["_bus1_nodes"])

\* "MRT_<bus1>TRF_<id>.<nodes>" with its quotes.
MRTEntry(self) ==
    <<"\"MRT_">> \o Format(self["_bus1"]) \o <<"TRF_">> \o Format(self["_transformer"])
        \o <<".">> \o Format(self["_bus1_nodes"]) \o Quote

\* The buses and conns strings of adapting_string_variables.
BusesAndConns(self) ==
    LET b2 == BusEntry(self["_bus2"], self["_bus2_nodes"])
        b3 == BusEntry(self["_bus3"], self["_bus3_nodes"])
        c2 == Format(self["_conn_p"]) \o Blank \o Format(self["_conn_s"])
        c3 == c2 \o Blank \o Format(self["_conn_t"])
    IN  IF self["_MRT"] = PyInt(1) THEN
            IF self["_bus3"] # Str("0")
            THEN [buses |-> PyStr(MRTEntry(self) \o Blank \o b2 \o Blank \o b3 \o Blank),
                  conns |-> PyStr(c3)]
            ELSE [buses |-> PyStr(MRTEntry(self) \o Blank \o b2 \o Blank),
                  conns |-> PyStr(c2)]
        ELSE
            IF self["_bus3"] # Str("0")
            THEN [buses |-> PyStr(BusEntry(self["_bus1"], self["_bus1_nodes"])
                                    \o Blank \o b2 \o Blank \o b3),
                  conns |-> PyStr(c3)]
            ELSE [buses |-> PyStr(BusEntry(self["_bus1"], self["_bus1_nodes"]) \o Blank \o b2),
                  conns |-> PyStr(c2)]

\* pattern_reactor attached at bus1 instead of bus2.
pattern_reactor_Bus1(self) ==
    PyStr(<<"New \"Reactor.TRF_">> \o Format(self["_transformer"])
            \o <<"\" phases=1 bus1=\"">> \o Format(self["_bus1"])
            \o <<".4\" R=15 X=0 basefreq=60">>)

pattern_reactor(self) ==
    PyStr(<<"New \"Reactor.TRF_">> \o Format(self["_transformer"])
            \o <<"\" phases=1 bus1=\"">> \o Format(self["_bus2"])
            \o <<".4\" R=15 X=0 basefreq=60">>)

pattern_MRT(self) ==
    LET id == Format(self["_transformer"])
    IN  PyStr(
          <<"New \"Linecode.LC_MRT_TRF_">> \o id
            \o <<"_1\" nphases=1 basefreq=60 r1=15000 x1=0 units=km normamps=0">> \o Newline
          \o <<"New \"Linecode.LC_MRT_TRF_">> \o id
            \o <<"_2\" nphases=2 basefreq=60 r1=15000 x1=0 units=km normamps=0">> \o Newline
          \o <<"New \"Linecode.LC_MRT_TRF_">> \o id
            \o <<"_3\" nphases=3 basefreq=60 r1=15000 x1=0 units=km normamps=0">> \o Newline
          \o <<"New \"Linecode.LC_MRT_TRF_">> \o id
            \o <<"_4\" nphases=4 basefreq=60 r1=15000 x1=0 units=km normamps=0">> \o Newline
          \o <<"New \"Line.Resist_MTR_TRF_">> \o id
            \o <<"\" phases=1 bus1=\"">> \o Format(self["_bus1"]) \o <<".">>
            \o Format(self["_bus1_nodes"])
            \o <<"\" bus2=\"MRT_">> \o Format(self["_bus1"]) \o <<"TRF_">> \o id \o <<".">>
            \o Format(self["_bus1_nodes"])
            \o <<"\" linecode=\"LC_MRT_TRF_">> \o id \o <<"_1\" length=0.001 units=km">>
            \o Newline)

NoStrings ==
    [exc |-> "none", kvs |-> PyNone, buses |-> PyNone, conns |-> PyNone,
     kvas |-> PyNone, taps |-> PyNone, MRT |-> PyNone]

\* The return statement of adapting_string_variables: the tuple, unless one
\* of the expressions evaluated before it raised.
ReturnStrings(bc, MRT, kvas, taps, k) ==
    IF kvas.exc # "none" THEN [NoStrings EXCEPT !.exc = kvas.exc]
    ELSE IF taps.exc # "none" THEN [NoStrings EXCEPT !.exc = taps.exc]
    ELSE IF k.exc # "none" THEN [NoStrings EXCEPT !.exc = k.exc]
    ELSE [exc |-> "none", kvs |-> k.val, buses |-> bc.buses, conns |-> bc.conns,
          kvas |-> kvas.val, taps |-> taps.val, MRT |-> MRT]

\* The tuple adapting_string_variables returns, or the exception it raises.
adapting_string_variables(self) ==
    ReturnStrings(BusesAndConns(self),
                  IF self["_MRT"] = PyInt(1) THEN pattern_MRT(self) ELSE PyStr(<<>>),
                  Replicated(self["_kvas"], self["_windings"]),
                  Replicated(self["_tap"], self["_windings"]),
                  call_kvs(self))

\* The assignments of the first statement of full_string and __repr__:
\* self.kvs, self.buses, self.conns, self.kvas, self.taps. kvas is a property
\* whose setter stores into _kvas; the other four become instance attributes.
AssignStrings(self, r) ==
    SetAttr(SetAttr(SetAttr(SetAttr(SetAttr(self,
        "kvs", r.kvs), "buses", r.buses), "conns", r.conns), "_kvas", r.kvas), "taps", r.taps)

\* The text the return statement of full_string and __repr__ builds.
TransformerBlock(self, MRT) ==
    LET ll == Format3f(self["_loadloss"])
        nl == Format3f(self["_noloadloss"])
    IN  IF ll.exc # "none" THEN ll
        ELSE IF nl.exc # "none" THEN nl
        ELSE Ok(PyStr(
              <<"New \"Transformer.TRF_">> \o Format(self["_transformer"])
              \o <<"\" phases=">> \o Format(self["_phases"])
              \o <<" windings=">> \o Format(self["_windings"])
              \o <<" buses=[">> \o Format(self["buses"])
              \o <<"] conns=[">> \o Format(self["conns"])
              \o <<"] kvs=[">> \o Format(self["kvs"])
              \o <<"] taps=[">> \o Format(self["taps"])
              \o <<"] kvas=[">> \o Format(self["_kvas"])
              \o <<"] %loadloss=">> \o ll.val.s
              \o <<" %noloadloss=">> \o nl.val.s \o Newline
              \o Format(MRT)
              \o Format(pattern_reactor(self))))

\* The entity after the assignments, with the text returned.
Serialized(self1, MRT) == [self |-> self1, out |-> TransformerBlock(self1, MRT)]

\* The body shared by full_string and __repr__, given the tuple r.
Serialize(self, r) ==
    IF r.exc # "none" THEN [self |-> self, out |-> Raise(r.exc)]
    ELSE Serialized(AssignStrings(self, r), r.MRT)

\* full_string: the entity after the call and the call's outcome.
full_string(self) == Serialize(self, adapting_string_variables(self))

\* __repr__: the same statements as full_string, written a second time.
__repr__(self) == Serialize(self, adapting_string_variables(self))

\* ------------------------------------------- serializing a populated entity

TipTrafoValues == {"MT", "M"}
PrimaryCodes == {"A", "ABCN", "AB", "ABC"}
SecondaryCodes == {"ABN", "AN", "AB", "AC", "ABC", "ABCN", "BCN"}
TertiaryCodes == {"AN", "XX", "0"}
MRTValues == {0, 1}
Bus3Values == {"0", "B3"}
EnrollCodes == {"A", "AN", "ABCN", "BCN", "AB", "ABC", "AC"}

\* An entity as one pass of the interpreter leaves it.
Populate(tip, p, s, t, mrt, b3, w) ==
    ("_feeder" :> Str("F1")) @@ ("_transformer" :> Str("T1"))
    @@ ("_bus1" :> Str("B1")) @@ ("_bus2" :> Str("B2")) @@ ("_bus3" :> Str(b3))
    @@ ("_bus1_nodes" :> Str("1.2.3")) @@ ("_bus2_nodes" :> Str("1.2.3.4"))
    @@ ("_bus3_nodes" :> Str("1.4"))
    @@ ("_conn_p" :> Str("Delta")) @@ ("_conn_s" :> Str("Wye")) @@ ("_conn_t" :> Str("Wye"))
    @@ ("_tip_trafo" :> Str(tip)) @@ ("_lig_fas_p" :> Str(p)) @@ ("_lig_fas_s" :> Str(s))
    @@ ("_lig_fas_t" :> Str(t)) @@ ("_MRT" :> PyInt(mrt)) @@ ("_windings" :> PyInt(w))
    @@ ("_phases" :> PyInt(3)) @@ ("_kvas" :> PyInt(45)) @@ ("_tap" :> PyFloat(10000))
    @@ ("_v_pri" :> PyFloat(138000)) @@ ("_v_sec" :> PyFloat(3800))
    @@ ("_loadloss" :> PyFloat(12346)) @@ ("_noloadloss" :> PyFloat(5000))
    @@ Transformer

PopulatedEntities ==
    {Populate(tip, p, s, t, mrt, b3, w) :
        tip \in TipTrafoValues, p \in PrimaryCodes, s \in SecondaryCodes,
        t \in TertiaryCodes, mrt \in MRTValues, b3 \in Bus3Values, w \in 0..MaxWindings}

NoCall == [op |-> "none", arg |-> PyNone, exc |-> "none", val |-> PyNone]
Outcome(op, arg, r) == [op |-> op, arg |-> arg, exc |-> r.exc, val |-> r.val]

NoException == [exc |-> "none", key |-> "", row |-> 0]
NoOutput == [written |-> FALSE, key |-> PyNone, blocks |-> <<>>]
NoReturn == [done |-> FALSE, entities |-> <<>>, file_name |-> PyNone, output |-> NoOutput]

DriverIdle ==
    /\ config = <<>>
    /\ rows = <<>>
    /\ idx = 0
    /\ transformers = <<>>
    /\ pc = "idle"
    /\ raised = NoException
    /\ returned = NoReturn

FormatterInit ==
    /\ obj \in PopulatedEntities
    /\ populated = obj
    /\ ret = NoCall
    /\ DriverIdle

\* A serializing call: the entity is left as the call left it.
Called(op, r) ==
    /\ obj' = r.self
    /\ ret' = Outcome(op, PyNone, r.out)
    /\ UNCHANGED <<populated, drvVars>>

\* t.full_string()
FullString ==
    /\ pc = "idle"
    /\ Called("full_string", full_string(obj))

\* repr(t)
Repr ==
    /\ pc = "idle"
    /\ Called("__repr__", __repr__(obj))

\* t.kvs()
Kvs ==
    /\ pc = "idle"
    /\ ret' = Outcome("kvs", PyNone, call_kvs(obj))
    /\ UNCHANGED <<obj, populated, drvVars>>

\* t.voltage_enroll(code, t.v_pri)
VoltageEnroll ==
    /\ pc = "idle"
    /\ \E code \in EnrollCodes :
          ret' = Outcome("voltage_enroll", Str(code), voltage_enroll(Str(code), obj["_v_pri"]))
    /\ UNCHANGED <<obj, populated, drvVars>>

\* t.voltage_enroll_sec(code, t.v_sec)
VoltageEnrollSec ==
    /\ pc = "idle"
    /\ \E code \in EnrollCodes :
          ret' = Outcome("voltage_enroll_sec", Str(code),
                         voltage_enroll_sec(Str(code), obj["_v_sec"]))
    /\ UNCHANGED <<obj, populated, drvVars>>

FormatterNext == FullString \/ Repr \/ Kvs \/ VoltageEnroll \/ VoltageEnrollSec

FormatterSpec == FormatterInit /\ [][FormatterNext]_vars

\* ------------------------------------------------- properties: the formatter

RECURSIVE Text(_)
\* The characters of a sequence of atoms, as one string.
Text(atoms) == IF atoms = <<>> THEN "" ELSE Head(atoms) \o Text(Tail(atoms))

\* The positions of the atoms equal to sep, and the k-th of them (0 before
\* the first, one past the end after the last).
SepPositions(atoms, sep) == {i \in 1..Len(atoms) : atoms[i] = sep}
SepPosition(atoms, sep, k) ==
    IF k = 0 THEN 0
    ELSE IF k > Cardinality(SepPositions(atoms, sep)) THEN Len(atoms) + 1
    ELSE CHOOSE i \in SepPositions(atoms, sep) :
            Cardinality({j \in SepPositions(atoms, sep) : j < i}) = k - 1

\* The pieces of a text between the atoms equal to sep (str.split(sep)).
SplitOn(atoms, sep) ==
    [k \in 1..(Cardinality(SepPositions(atoms, sep)) + 1) |->
        SubSeq(atoms, SepPosition(atoms, sep, k - 1) + 1, SepPosition(atoms, sep, k) - 1)]

NonEmpty(piece) == piece # <<>>
\* The blank-separated entries of a list string.
Entries(atoms) == SelectSeq(SplitOn(atoms, " "), NonEmpty)

SerializedOk == ret.op \in {"full_string", "__repr__"} /\ ret.exc = "none"
Field(name) == Text(populated[name].s)

\* C7: after a successful serialization the bus list and the connection list
\* have three entries when bus3 != "0" and two when bus3 == "0", whatever the
\* MRT flag; the first bus entry is "MRT_<bus1>TRF_<id>.<bus1 nodes>" when
\* MRT == 1 and "<bus1>.<bus1 nodes>" otherwise.
C7_BusListEntries ==
    SerializedOk =>
        LET buses == Entries(obj["buses"].s)
            conns == Entries(obj["conns"].s)
            n == IF populated["_bus3"] # Str("0") THEN 3 ELSE 2
        IN  /\ Len(buses) = n
            /\ Len(conns) = n
            /\ Text(buses[1]) =
                 IF populated["_MRT"] = PyInt(1)
                 THEN "\"MRT_" \o Field("_bus1") \o "TRF_" \o Field("_transformer")
                        \o "." \o Field("_bus1_nodes") \o "\""
                 ELSE "\"" \o Field("_bus1") \o "." \o Field("_bus1_nodes") \o "\""

C7_Witness ==
    /\ SerializedOk
    /\ populated["_MRT"] = PyInt(1)
    /\ populated["_bus3"] # Str("0")
    /\ Len(Entries(obj["buses"].s)) = 3

LineCodeText(k) ==
    "New \"Linecode.LC_MRT_TRF_" \o Field("_transformer") \o "_" \o ToString(k)
        \o "\" nphases=" \o ToString(k) \o " basefreq=60 r1=15000 x1=0 units=km normamps=0"

ConnectingLineText ==
    "New \"Line.Resist_MTR_TRF_" \o Field("_transformer") \o "\" phases=1 bus1=\""
        \o Field("_bus1") \o "." \o Field("_bus1_nodes") \o "\" bus2=\"MRT_"
        \o Field("_bus1") \o "TRF_" \o Field("_transformer") \o "." \o Field("_bus1_nodes")
        \o "\" linecode=\"LC_MRT_TRF_" \o Field("_transformer") \o "_1\" length=0.001 units=km"

ReactorText ==
    "New \"Reactor.TRF_" \o Field("_transformer") \o "\" phases=1 bus1=\""
        \o Field("_bus2") \o ".4\" R=15 X=0 basefreq=60"

\* C8: the serialized text is the "New Transformer.TRF_<id>" line; then, if
\* and only if MRT == 1, the four line-code definitions (nphases 1 to 4) and
\* the connecting line from the real bus1 to the synthetic MRT node; then,
\* always and last, the Reactor line attached at bus2's node 4.
C8_BlockOrder ==
    SerializedOk =>
        LET lines == SplitOn(ret.val.s, "\n")
        IN  /\ lines[1][1] = "New \"Transformer.TRF_"
            /\ lines[1][2] = Field("_transformer")
            /\ Text(lines[Len(lines)]) = ReactorText
            /\ IF populated["_MRT"] = PyInt(1)
               THEN /\ Len(lines) = 7
                    /\ \A k \in 1..4 : Text(lines[k + 1]) = LineCodeText(k)
                    /\ Text(lines[6]) = ConnectingLineText
               ELSE Len(lines) = 2

C8_Witness ==
    /\ SerializedOk
    /\ populated["_MRT"] = PyInt(1)
    /\ Len(SplitOn(ret.val.s, "\n")) = 7

\* C9: after a successful serialization the kvas string and the taps string
\* each hold exactly `windings` blank-separated tokens, every token the text
\* of the scalar kvas (respectively tap) the entity was populated with.
C9_Replication ==
    SerializedOk =>
        LET n == populated["_windings"].n
            kvas == Entries(obj["_kvas"].s)
            taps == Entries(obj["taps"].s)
        IN  /\ Len(kvas) = n
            /\ \A i \in 1..Len(kvas) : kvas[i] = Format(populated["_kvas"])
            /\ Len(taps) = n
            /\ \A i \in 1..Len(taps) : taps[i] = Format(populated["_tap"])

C9_Witness ==
    /\ SerializedOk
    /\ populated["_windings"] = PyInt(3)
    /\ Len(Entries(obj["_kvas"].s)) = 3
    /\ Len(Entries(obj["taps"].s)) = 3

\* enroll and enrollSecondary as the specification's table words them, as text.
Sqrt3Text(kv) == Text(Format(TrueDiv(kv, "sqrt3").val))
EnrollText(code, kv) ==
    IF code \in PhaseToNeutralFamily THEN Sqrt3Text(kv) ELSE Text(Format(kv))
SingleToNeutralCodes == {"A", "B", "C", "AN", "BN", "CN"}
PhaseToPhaseCodes == {"AB", "BC", "CA", "AC", "ABC"}
GroundedMultiPhaseCodes == {"ABN", "BCN", "CAN", "ABCN"}
EnrollSecondaryText(code, kv) ==
    IF code \in GroundedMultiPhaseCodes THEN Sqrt3Text(kv) ELSE Text(Format(kv))
HalfText(kv) == Text(Format(TrueDiv(kv, "2").val))
ReturnedText(text) == ret.exc = "none" /\ ret.val.ty = "str" /\ Text(ret.val.s) = text
FreshKvsCall == ret.op = "kvs" /\ obj = populated

\* C3: kvs() takes the first matching row of the table: MT gives
\* "<v_pri> <v_sec>"; else lig_fas_t in {BN,CN,AN} or lig_fas_s = ABN gives
\* "<enroll(p, v_pri)> <v_sec/2> <v_sec/2>"; else lig_fas_t = XX and lig_fas_s
\* in {AN,BN,CN,AB,BC,CA,AC,ABC} gives "<enroll(p, v_pri)>
\* <enrollSecondary(s, v_sec)>"; no row matching gives the empty string.
\* enroll is kv/sqrt(3) for the phase-to-neutral family and kv for AB,BC,CA,ABC;
\* enrollSecondary is kv for the single phase-to-neutral codes and for the
\* phase-to-phase codes, and kv/sqrt(3) for ABN,BCN,CAN,ABCN.
C3_KvsSelection ==
    LET p == Field("_lig_fas_p")
        s == Field("_lig_fas_s")
        t == Field("_lig_fas_t")
        v_pri == populated["_v_pri"]
        v_sec == populated["_v_sec"]
        arg == Text(ret.arg.s)
    IN  /\ FreshKvsCall =>
              IF Field("_tip_trafo") = "MT" THEN
                  ReturnedText(Text(Format(v_pri)) \o " " \o Text(Format(v_sec)))
              ELSE IF t \in {"BN", "CN", "AN"} \/ s = "ABN" THEN
                  ReturnedText(EnrollText(p, v_pri) \o " " \o HalfText(v_sec)
                                  \o " " \o HalfText(v_sec))
              ELSE IF t = "XX" /\ s \in {"AN", "BN", "CN", "AB", "BC", "CA", "AC", "ABC"} THEN
                  ReturnedText(EnrollText(p, v_pri) \o " " \o EnrollSecondaryText(s, v_sec))
              ELSE IF t = "0" /\ s = "ABCN" THEN TRUE
              ELSE ReturnedText("")
        /\ ret.op = "voltage_enroll" /\ arg \in PhaseToNeutralFamily \cup PhaseToPhaseFamily =>
              ret.exc = "none" /\ Text(Format(ret.val)) = EnrollText(arg, v_pri)
        /\ ret.op = "voltage_enroll_sec"
             /\ arg \in SingleToNeutralCodes \cup PhaseToPhaseCodes \cup GroundedMultiPhaseCodes =>
              ret.exc = "none" /\ Text(Format(ret.val)) = EnrollSecondaryText(arg, v_sec)

\* C4: serializing is pure: every stored field of the entity, and its kvs
\* operation, is after full_string or __repr__ what it was before.
C4_SerializationPure ==
    ret.op \in {"full_string", "__repr__"} =>
        /\ \A f \in DeclaredFields : obj[f] = populated[f]
        /\ "kvs" \notin DOMAIN obj

\* The call returned what the first serializing call on the entity returned.
SameAsFirst(first) == first.exc = "none" => (ret.exc = "none" /\ ret.val = first.val)

\* C12: serializing is repeatable: on an entity whose first full_string or
\* __repr__ returns a text, every later full_string or __repr__, in any
\* sequence, succeeds and returns that same text.
C12_SerializationRepeatable ==
    ret.op \in {"full_string", "__repr__"} => SameAsFirst(full_string(populated).out)

\* C10: with tip_trafo != "MT", lig_fas_t = "0" and lig_fas_s = "ABCN", kvs()
\* returns the text of enroll(lig_fas_p, v_pri) immediately followed by the
\* text of v_sec, for the primary codes of both enroll families.
C10_FourthRow ==
    FreshKvsCall /\ Field("_tip_trafo") # "MT" /\ Field("_lig_fas_t") = "0"
        /\ Field("_lig_fas_s") = "ABCN"
        /\ Field("_lig_fas_p") \in PhaseToNeutralFamily \cup PhaseToPhaseFamily =>
            ReturnedText(EnrollText(Field("_lig_fas_p"), populated["_v_pri"])
                            \o Text(Format(populated["_v_sec"])))

\* ------------------------------------------------- mapping rule interpreter

\* The outcome of building (part of) an entity: the entity so far, or the
\* exception raised and the key it names.
Built(ent) == [exc |-> "none", key |-> "", ent |-> ent]
Failed(exc, key) == [exc |-> exc, key |-> key, ent |-> Transformer]

\* The names bound in the module's globals(): the imports of lines 13-23 and
\* the class itself.
ModuleNames == {"copy", "re", "gpd"}
ConverterNames ==
    {"convert_ttranf_phases", "convert_tfascon_bus", "convert_tten",
     "convert_ttranf_windings", "convert_tfascon_conn", "convert_tpotaprt",
     "convert_tfascon_phases", "convert_tfascon_bus_prim", "convert_tfascon_bus_sec",
     "convert_tfascon_bus_terc", "convert_tfascon_phases_trafo"}
OtherNames == {"Any", "tqdm", "create_output_file", "dataclass", "Transformer"}
ModuleGlobals == ModuleNames \cup ConverterNames \cup OtherNames

\* function_(str(param_value)) for a name found in globals(). What a converter
\* returns is kept as the application itself.
CallGlobal(function_name, param_value) ==
    IF function_name \in ModuleNames THEN Failed("TypeError", function_name)
    ELSE Built([ty |-> "converted", n |-> 0, irr |-> FALSE,
                s |-> <<function_name>> \o Format(param_value)])

\* A mapping rule: the target attribute and, by section, a literal, a column,
\* a [column, function] pair or a token list.
StaticRule(attr, lit) ==
    [attr |-> attr, lit |-> lit, col |-> "", pair |-> FALSE, fn |-> "", toks |-> <<>>]
ColumnRule(attr, col) ==
    [attr |-> attr, lit |-> PyNone, col |-> col, pair |-> FALSE, fn |-> "", toks |-> <<>>]
PairRule(attr, col, fn) ==
    [attr |-> attr, lit |-> PyNone, col |-> col, pair |-> TRUE, fn |-> fn, toks |-> <<>>]
CalculatedRule(attr, toks) ==
    [attr |-> attr, lit |-> PyNone, col |-> "", pair |-> FALSE, fn |-> "", toks |-> toks]

\* setattr(transformer_, f"_{key}", value), as an outcome.
Stored(ent, rule, value) == Built(SetAttr(ent, "_" \o rule.attr, value))

\* setattr(transformer_, f"_{key}", row[column]): a KeyError when the row has
\* no such column.
StoredColumn(ent, rule, row) ==
    IF rule.col \notin DOMAIN row THEN Failed("KeyError", rule.col)
    ELSE Stored(ent, rule, row[rule.col])

\* ---- the expression of a calculated rule

\* any(char.isalpha() for char in item), for the str items the model uses.
AlphaItems == {"POT_NOM", "CTMT", "TIP_TRAFO", "COD_ID", "NO_COL"}
IsColumnReference(item) == item.ty = "str" /\ item.s # <<>> /\ item.s[1] \in AlphaItems

ExpressionText(atoms) == [exc |-> "none", key |-> "", text |-> atoms]
ExpressionFailed(exc, key) == [exc |-> exc, key |-> key, text |-> <<>>]

\* piece followed by the rest of the expression, unless building the rest failed.
Prefixed(piece, rest) ==
    IF rest.exc # "none" THEN rest ELSE ExpressionText(piece \o rest.text)

RECURSIVE Expression(_, _, _)
\* The inner loop of _process_calculated from item i on: the expression text,
\* each column reference replaced by a blank and the row's value; a KeyError
\* when the row has no such column.
Expression(items, row, i) ==
    IF i > Len(items) THEN ExpressionText(<<>>)
    ELSE IF IsColumnReference(items[i]) /\ items[i].s[1] \notin DOMAIN row
         THEN ExpressionFailed("KeyError", items[i].s[1])
    ELSE Prefixed(IF IsColumnReference(items[i])
                  THEN Blank \o Format(row[items[i].s[1]])
                  ELSE Format(items[i]),
                  Expression(items, row, i + 1))

\* ---- eval(expression), for integers joined by + - *

NotBlank(atom) == atom # " "
IsNumber(atom) == \E n \in 0..MaxNum : ToString(n) = atom
Number(atom) == CHOOSE n \in 0..MaxNum : ToString(n) = atom
Operators == {"+", "-", "*"}

\* The lexemes are operands at the odd positions, binary operators between
\* them (the rules of the model write no sign and no parenthesis).
WellFormed(lex) ==
    /\ Len(lex) % 2 = 1
    /\ \A i \in 1..Len(lex) :
          IF i % 2 = 1 THEN lex[i] \notin Operators ELSE lex[i] \in Operators

RECURSIVE Sum(_, _, _, _)
\* The value from operator position i on, given the sum of the finished terms
\* and the product of the term under way (* binds tighter than + and -).
Sum(lex, i, sum, product) ==
    IF i > Len(lex) THEN sum + product
    ELSE IF lex[i] = "*" THEN Sum(lex, i + 2, sum, product * Number(lex[i + 1]))
    ELSE IF lex[i] = "+" THEN Sum(lex, i + 2, sum + product, Number(lex[i + 1]))
    ELSE Sum(lex, i + 2, sum + product, 0 - Number(lex[i + 1]))

\* eval of the lexemes: a name that is not a number is unbound (NameError).
EvalLexemes(lex) ==
    IF ~WellFormed(lex) THEN Failed("SyntaxError", "")
    ELSE IF \E i \in 1..Len(lex) : i % 2 = 1 /\ ~IsNumber(lex[i])
         THEN Failed("NameError", "")
    ELSE Built(PyInt(Sum(lex, 2, 0, Number(lex[1]))))

\* eval(expression), or the exception building the expression raised.
Eval(expression) ==
    IF expression.exc # "none" THEN Failed(expression.exc, expression.key)
    ELSE EvalLexemes(SelectSeq(expression.text, NotBlank))

\* param_value of _process_calculated for one rule, as an outcome.
calculated_value(rule, row) == Eval(Expression(rule.toks, row, 1))

\* ---- one rule of each section

static_rule(ent, rule) == Stored(ent, rule, rule.lit)

direct_rule(ent, rule, row) == StoredColumn(ent, rule, row)

\* The value stored, unless computing it raised.
StoredOutcome(ent, rule, value) ==
    IF value.exc # "none" THEN Failed(value.exc, value.key)
    ELSE Stored(ent, rule, value.ent)

\* globals()[function_name] comes first, then row[param_name], then the call.
indirect_rule(ent, rule, row) ==
    IF ~rule.pair THEN StoredColumn(ent, rule, row)
    ELSE IF rule.fn \notin ModuleGlobals THEN Failed("KeyError", rule.fn)
    ELSE IF rule.col \notin DOMAIN row THEN Failed("KeyError", rule.col)
    ELSE StoredOutcome(ent, rule, CallGlobal(rule.fn, row[rule.col]))

calculated_rule(ent, rule, row) == StoredOutcome(ent, rule, calculated_value(rule, row))

\* The rule of a section of the given key.
ApplyRule(key, ent, rule, row) ==
    CASE key = "static" -> static_rule(ent, rule)
      [] key = "direct_mapping" -> direct_rule(ent, rule, row)
      [] key = "indirect_mapping" -> indirect_rule(ent, rule, row)
      [] key = "calculated" -> calculated_rule(ent, rule, row)

RECURSIVE ProcessRules(_, _, _, _)
\* `for mapping_key, mapping_value in value.items()`: the rules in the order
\* the section lists them, stopping at the first exception.
ProcessRules(key, built, rules, row) ==
    IF built.exc # "none" \/ rules = <<>> THEN built
    ELSE ProcessRules(key, ApplyRule(key, built.ent, Head(rules), row), Tail(rules), row)

_process_static(transformer_, value) ==
    ProcessRules("static", Built(transformer_), value, <<>>)
_process_direct_mapping(transformer_, value, row) ==
    ProcessRules("direct_mapping", Built(transformer_), value, row)
_process_indirect_mapping(transformer_, value, row) ==
    ProcessRules("indirect_mapping", Built(transformer_), value, row)
_process_calculated(transformer_, value, row) ==
    ProcessRules("calculated", Built(transformer_), value, row)

\* One pass of the loop of _create_transformer_from_row: the branch the item's
\* key selects; an item of any other key (arquivo) is passed over.
ProcessItem(built, item, row) ==
    IF built.exc # "none" THEN built
    ELSE CASE item.key = "static" -> _process_static(built.ent, item.rules)
           [] item.key = "direct_mapping" -> _process_direct_mapping(built.ent, item.rules, row)
           [] item.key = "indirect_mapping" -> _process_indirect_mapping(built.ent, item.rules, row)
           [] item.key = "calculated" -> _process_calculated(built.ent, item.rules, row)
           [] OTHER -> built

RECURSIVE ProcessItems(_, _, _)
\* `for key, value in transformer_config.items()`: the items in document order.
ProcessItems(built, items, row) ==
    IF items = <<>> THEN built
    ELSE ProcessItems(ProcessItem(built, Head(items), row), Tail(items), row)

_create_transformer_from_row(transformer_config, row) ==
    ProcessItems(Built(Transformer), transformer_config, row)

\* ------------------------------------------------------------ batch driver

Section(key, rules) == [key |-> key, rules |-> rules]

\* The sections a configuration document of the model may hold.
SectionPool ==
    {Section("static", <<StaticRule("feeder", Str("F0")), StaticRule("windings", PyInt(2))>>),
     Section("static", <<StaticRule("foo", PyInt(1))>>),
     Section("direct_mapping", <<ColumnRule("feeder", "CTMT"), ColumnRule("kvas", "POT_NOM")>>),
     Section("direct_mapping", <<ColumnRule("kvas", "NO_COL")>>),
     Section("indirect_mapping", <<ColumnRule("tip_trafo", "TIP_TRAFO"),
                                   PairRule("windings", "TIP_TRAFO", "convert_ttranf_windings")>>),
     Section("indirect_mapping", <<PairRule("windings", "TIP_TRAFO", "convert_unknown")>>),
     Section("indirect_mapping", <<PairRule("windings", "TIP_TRAFO", "copy")>>),
     Section("calculated", <<CalculatedRule("kvas", <<Str("POT_NOM"), Str("*"), PyInt(2)>>)>>),
     Section("calculated", <<CalculatedRule("kvas", <<Str("POT_NOM"), Str("+"), Str("CTMT")>>)>>)}

Arquivo == Section("arquivo", <<>>)

\* The documents: up to four sections of distinct keys, in any order, and the
\* arquivo entry.
Documents ==
    {c \o <<Arquivo>> :
        c \in {d \in UNION {[1..n -> SectionPool] : n \in 0..4} :
                  \A i, j \in 1..Len(d) : i # j => d[i].key # d[j].key}}

RowPool ==
    {("COD_ID" :> Str("T1")) @@ ("CTMT" :> Str("F1")) @@ ("POT_NOM" :> PyInt(10))
        @@ ("TIP_TRAFO" :> Str("M")),
     ("COD_ID" :> Str("T2")) @@ ("CTMT" :> Str("F2")) @@ ("POT_NOM" :> PyInt(15))
        @@ ("TIP_TRAFO" :> Str("MT"))}

Dataframes == UNION {[1..n -> RowPool] : n \in 0..MaxRows}

FormatterIdle ==
    /\ obj = Transformer
    /\ populated = Transformer
    /\ ret = NoCall

Init ==
    /\ config \in Documents
    /\ rows \in Dataframes
    /\ idx = 0
    /\ transformers = <<>>
    /\ pc = "loop"
    /\ raised = NoException
    /\ returned = NoReturn
    /\ FormatterIdle

\* create_output_file(transformers, name, feeder=...): the identifier of the
\* artifact, keyed by the feeder.
create_output_file(entities, name, feeder) == PyStr(<<name, "_">> \o Format(feeder))

\* The destination create_output_file writes: one document, keyed by the
\* feeder it was given, holding the blocks of the entities it was given, in
\* their order.
OutputDocument(entities, feeder) == [written |-> TRUE, key |-> feeder, blocks |-> entities]

\* LastFeeder taking the entity of the first row.
LastFeeder_FirstEntity(entities) == entities[1]["_feeder"]

\* transformer_.feeder after the loop: the feeder of the entity the last pass
\* of the loop built.
LastFeeder(entities) == entities[Len(entities)]["_feeder"]

\* transformers, file_name: the value returned.
Returned(entities, feeder) ==
    [done |-> TRUE, entities |-> entities,
     file_name |-> create_output_file(entities, "transformers", feeder),
     output |-> OutputDocument(entities, feeder)]

\* The body of the loop for one row, given the outcome of building its
\* entity: the entity is appended, or the exception leaves the function.
RowDone(built) ==
    IF built.exc = "none"
    THEN /\ transformers' = Append(transformers, built.ent)
         /\ idx' = idx + 1
         /\ UNCHANGED <<pc, raised>>
    ELSE /\ pc' = "raised"
         /\ raised' = [exc |-> built.exc, key |-> built.key, row |-> idx + 1]
         /\ UNCHANGED <<transformers, idx>>

\* One pass of `for _, row in progress_bar`.
LoopRow ==
    /\ pc = "loop"
    /\ idx < Len(rows)
    /\ RowDone(_create_transformer_from_row(config, rows[idx + 1]))
    /\ UNCHANGED <<config, rows, returned, fmtVars>>

\* The statements after the loop: the output file is named after the feeder of
\* transformer_, the loop's last entity, which is unbound when there was no row.
WriteOutput ==
    /\ pc = "loop"
    /\ idx = Len(rows)
    /\ IF idx = 0
       THEN /\ pc' = "raised"
            /\ raised' = [exc |-> "UnboundLocalError", key |-> "transformer_", row |-> 0]
            /\ UNCHANGED returned
       ELSE /\ pc' = "returned"
            /\ returned' = Returned(transformers, LastFeeder(transformers))
            /\ UNCHANGED raised
    /\ UNCHANGED <<config, rows, idx, transformers, fmtVars>>

Next == LoopRow \/ WriteOutput

Spec == Init /\ [][Next]_vars

\* ------------------------------------------------ properties: the interpreter

\* The rules of the section of the given key, none when the document has no
\* such section.
RulesOf(key) ==
    IF \E i \in 1..Len(config) : config[i].key = key
    THEN config[CHOOSE i \in 1..Len(config) : config[i].key = key].rules
    ELSE <<>>
RuleFor(key, attr) ==
    RulesOf(key)[CHOOSE i \in 1..Len(RulesOf(key)) : RulesOf(key)[i].attr = attr]
Targets(key) == {RulesOf(key)[i].attr : i \in 1..Len(RulesOf(key))}
MappingKeys == {"static", "direct_mapping", "indirect_mapping", "calculated"}

\* C1: an attribute written by both the direct_mapping section and the
\* calculated section holds, in every entity built, the calculated value,
\* whatever the order of the sections in the document.
C1_CalculatedWins ==
    \A i \in 1..Len(transformers) :
        \A attr \in Targets("direct_mapping") \cap Targets("calculated") :
            transformers[i]["_" \o attr]
                = calculated_value(RuleFor("calculated", attr), rows[i]).ent

NoRowError ==
    \A i \in 1..Len(rows) : _create_transformer_from_row(config, rows[i]).exc = "none"

\* C2: for every row set, the empty one included, when no row raises
\* create_transformer_from_json returns one entity per row, the i-th built
\* from the i-th row.
C2_OneEntityPerRow ==
    (pc # "loop" /\ NoRowError) =>
        /\ pc = "returned"
        /\ Len(returned.entities) = Len(rows)
        /\ \A i \in 1..Len(rows) :
              returned.entities[i] = _create_transformer_from_row(config, rows[i]).ent

UnknownFunctions ==
    {RulesOf("indirect_mapping")[i].fn : i \in 1..Len(RulesOf("indirect_mapping"))}
        \ (ModuleGlobals \cup {""})

\* C5: a [column, functionName] rule naming a function absent from the
\* registry fails the row with UnknownConversionFunction and aborts only that
\* row: the failure never leaves the batch driver.
C5_UnknownFunctionAbortsOnlyRow ==
    raised.key \in UnknownFunctions =>
        /\ raised.exc = "UnknownConversionFunction"
        /\ pc # "raised"

UnknownTargets ==
    {attr \in UNION {Targets(key) : key \in MappingKeys} : ("_" \o attr) \notin DeclaredFields}

\* C6: a rule whose target is not a field of the entity is a configuration
\* error that aborts the batch before any row is processed; no entity is built
\* carrying an attribute the entity type does not declare.
C6_UnknownTargetRejected ==
    /\ UnknownTargets # {} => (idx = 0 /\ transformers = <<>> /\ pc # "returned")
    /\ \A i \in 1..Len(transformers) : DOMAIN transformers[i] \subseteq DeclaredFields

\* C11: create_transformer_from_json writes the blocks of all the entities of
\* the batch, in row order, to one destination keyed by the feeder of the
\* entity of the last row, whatever the feeders of the other rows, and returns
\* the identifier of that destination together with the entity list.
C11_LastFeederKeysOutput ==
    returned.done =>
        /\ Len(returned.entities) = Len(rows)
        /\ returned.output.written
        /\ returned.output.blocks = returned.entities
        /\ returned.output.key = returned.entities[Len(rows)]["_feeder"]
        /\ returned.file_name =
              PyStr(<<"transformers", "_">> \o Format(returned.entities[Len(rows)]["_feeder"]))

\* A batch of two rows of different feeders has been written and returned.
C11_Witness ==
    /\ returned.done
    /\ Len(returned.entities) = 2
    /\ returned.entities[1]["_feeder"] = Str("F1")
    /\ returned.entities[2]["_feeder"] = Str("F2")
    /\ returned.output.key = Str("F2")

====
